---- MODULE Spec2Model ----
(***************************************************************************)
(* The highlight-span locator of the PDF viewer (PDFViewer component).     *)
(* Texts are sequences of one-character strings so that normalisation,    *)
(* tokenisation and substring matching are computed, not assumed.          *)
(***************************************************************************)
EXTENDS Integers, Sequences, FiniteSets, TLC

\* ------------------------------------------------------------------------
\* Characters and String.prototype helpers used by extractWords / wordsMatch
\* ------------------------------------------------------------------------

UpperCaseLetters ==
  <<"A","B","C","D","E","F","G","H","I","J","K","L","M",
    "N","O","P","Q","R","S","T","U","V","W","X","Y","Z">>

LowerCaseLetters ==
  <<"a","b","c","d","e","f","g","h","i","j","k","l","m",
    "n","o","p","q","r","s","t","u","v","w","x","y","z">>

Digits == {"0","1","2","3","4","5","6","7","8","9"}

\* the regular expression class \s (the members that occur in the texts)
WhiteSpace == {" ", "\t", "\n"}

Range(s) == {s[i] : i \in DOMAIN s}

\* the regular expression class \w : [A-Za-z0-9_]
IsWordChar(c) ==
  c \in Range(UpperCaseLetters) \cup Range(LowerCaseLetters) \cup Digits \cup {"_"}

LowerChar(c) ==
  IF c \in Range(UpperCaseLetters)
    THEN LowerCaseLetters[CHOOSE k \in DOMAIN UpperCaseLetters : UpperCaseLetters[k] = c]
    ELSE c

\* text.toLowerCase()
toLowerCase(text) == [i \in DOMAIN text |-> LowerChar(text[i])]

\* text.replace(/[^\w\s]/g, ' ')
replacePunctuation(text) ==
  [i \in DOMAIN text |->
     IF IsWordChar(text[i]) \/ text[i] \in WhiteSpace THEN text[i] ELSE " "]

\* text.split(/\s+/): cut at every maximal run of white space; a text that
\* starts or ends with white space yields an empty first or last piece.
RECURSIVE splitFrom(_, _, _, _)
splitFrom(text, i, cur, acc) ==
  IF i > Len(text) THEN Append(acc, cur)
  ELSE IF text[i] \in WhiteSpace
    THEN IF i > 1 /\ text[i-1] \in WhiteSpace
           THEN splitFrom(text, i + 1, cur, acc)
           ELSE splitFrom(text, i + 1, <<>>, Append(acc, cur))
    ELSE splitFrom(text, i + 1, Append(cur, text[i]), acc)

splitWhiteSpace(text) == splitFrom(text, 1, <<>>, <<>>)

LongEnough(w) == Len(w) > 2

extractWords(text) ==
  SelectSeq(splitWhiteSpace(replacePunctuation(toLowerCase(text))), LongEnough)

\* a.includes(b)
includes(a, b) ==
  \E i \in 0..(Len(a) - Len(b)) : SubSeq(a, i + 1, i + Len(b)) = b

\* wordsMatch accepting equal words only
wordsMatchExact(word1, word2) == word1 = word2

\* wordsMatch: one word is a substring of the other
wordsMatch(word1, word2) == includes(word1, word2) \/ includes(word2, word1)

\* ------------------------------------------------------------------------
\* The matching pass of applyHighlights
\* ------------------------------------------------------------------------

\* candidates further apart than this many spans are not generated
MaxSpanDistance == 500

\* a target without an accepted candidate
NoMatch == [start |-> -1, end |-> -1]

commonWords ==
  { <<"t","h","e">>, <<"a","n","d">>, <<"f","o","r">>, <<"w","i","t","h">>,
    <<"t","h","i","s">>, <<"t","h","a","t">>, <<"a","r","e">>, <<"w","a","s">>,
    <<"w","i","l","l">>, <<"f","r","o","m">>, <<"h","a","v","e">>, <<"h","a","s">> }

\* buildSpanData counting the spans from 1
buildSpanDataOneBased(allSpans) ==
  [k \in DOMAIN allSpans |->
     [index |-> k, words |-> extractWords(allSpans[k].textContent)]]

\* spanData: one entry per collected span, index = position in allSpans
\* (counted from 0 as in the source), words = extractWords(textContent)
buildSpanData(allSpans) ==
  [k \in DOMAIN allSpans |->
     [index |-> k - 1, words |-> extractWords(allSpans[k].textContent)]]

spanHasWord(span, targetWord) ==
  \E n \in DOMAIN span.words : wordsMatch(span.words[n], targetWord)

\* findWordInSpans stopping at the first span that has the word
findWordInSpansFirstOnly(targetWord, spanData) ==
  LET hasWord(span) == \E n \in DOMAIN span.words : wordsMatch(span.words[n], targetWord)
      found == SelectSeq(spanData, hasWord)
  IN IF found = <<>> THEN <<>> ELSE <<found[1].index>>

\* findWordInSpans with its default afterIndex = -1 and beforeIndex =
\* Infinity (the only way it is called): the indices, in span order, of the
\* spans one of whose words matches targetWord
findWordInSpans(targetWord, spanData) ==
  LET hasWord(span) == spanHasWord(span, targetWord)
      found == SelectSeq(spanData, hasWord)
  IN [k \in DOMAIN found |-> found[k].index]

\* validCombination limiting the number of spans between start and end
validCombinationSpansBetween(start, end) ==
  end > start /\ (end - start - 1) <= MaxSpanDistance

\* validCombination with the limit itself excluded
validCombinationBelowCap(start, end) ==
  end > start /\ (end - start) < MaxSpanDistance

\* validCombination accepting a start and an end in the same span
validCombinationSameSpan(start, end) ==
  end >= start /\ (end - start) <= MaxSpanDistance

\* validCombination without the limit on the distance
validCombinationNoCap(start, end) == end > start

\* the test of the nested loop that generates the candidates
validCombination(start, end) == end > start /\ (end - start) <= MaxSpanDistance

\* for (start of startPositions) for (end of endPositions) if (...) push
generateCandidates(startPositions, endPositions) ==
  LET S == Len(startPositions)
      E == Len(endPositions)
      all == [k \in 1..(S * E) |->
                [start |-> startPositions[((k - 1) \div E) + 1],
                 end   |-> endPositions[((k - 1) % E) + 1]]]
      valid(c) == validCombination(c.start, c.end)
  IN SelectSeq(all, valid)

spanLength(c) == c.end - c.start

\* sortCandidates leaving the candidates in the order of their generation
sortCandidatesOmitted(cands) == cands

\* insertSorted putting a candidate in front of those of the same length
RECURSIVE insertSortedBeforeEqual(_, _)
insertSortedBeforeEqual(sorted, c) ==
  IF sorted = <<>> THEN <<c>>
  ELSE IF spanLength(sorted[Len(sorted)]) < spanLength(c)
    THEN Append(sorted, c)
    ELSE Append(insertSortedBeforeEqual(SubSeq(sorted, 1, Len(sorted) - 1), c),
                sorted[Len(sorted)])

\* candidates.sort((a, b) => (a.end - a.start) - (b.end - b.start));
\* Array.prototype.sort is stable: equal lengths keep their generation order
RECURSIVE insertSorted(_, _)
insertSorted(sorted, c) ==
  IF sorted = <<>> THEN <<c>>
  ELSE IF spanLength(sorted[Len(sorted)]) <= spanLength(c)
    THEN Append(sorted, c)
    ELSE Append(insertSorted(SubSeq(sorted, 1, Len(sorted) - 1), c),
                sorted[Len(sorted)])

RECURSIVE sortFrom(_, _, _)
sortFrom(cands, k, sorted) ==
  IF k > Len(cands) THEN sorted
  ELSE sortFrom(cands, k + 1, insertSorted(sorted, cands[k]))

sortCandidates(cands) == sortFrom(cands, 1, <<>>)

\* uniqueWords keeping the stop-words
uniqueWordsWithCommon(highlightWords) == Range(highlightWords)

\* [...new Set(highlightWords)].filter(w => !commonWords.has(w)); only
\* membership matters to the filter, so the words are kept as a set
uniqueWords(highlightWords) == Range(highlightWords) \ commonWords

\* the words of all spans of the candidate's range (spanData[i]?.words)
rangeWords(spanData, cand) ==
  UNION { Range(spanData[i + 1].words) :
            i \in { j \in cand.start..cand.end : j + 1 \in DOMAIN spanData } }

\* containsAllWords accepting a range as soon as one word is found in it
containsSomeWord(spanData, cand, unique) ==
  \E word \in unique : \E rw \in rangeWords(spanData, cand) : wordsMatch(word, rw)

\* the predicate of candidates.filter(...)
containsAllWords(spanData, cand, unique) ==
  \A word \in unique : \E rw \in rangeWords(spanData, cand) : wordsMatch(word, rw)

filterCandidates(spanData, cands, unique) ==
  LET keep(c) == containsAllWords(spanData, c, unique)
  IN SelectSeq(cands, keep)

\* tooFewWords rejecting also a word sequence that begins and ends with the
\* same word
tooFewWordsSameEnds(highlightWords) ==
  Len(highlightWords) < 2 \/ highlightWords[1] = highlightWords[Len(highlightWords)]

\* tooFewWords rejecting the empty word sequence only
tooFewWordsEmptyOnly(highlightWords) == Len(highlightWords) < 1

\* if (highlightWords.length < 2) return
tooFewWords(highlightWords) == Len(highlightWords) < 2

\* matchHighlight taking the first and the last word from the words that
\* are not stop-words
matchHighlightSignificantEnds(spanData, highlight) ==
  LET highlightWords == extractWords(highlight.text)
      notCommon(w) == w \notin commonWords
      endWords == SelectSeq(highlightWords, notCommon)
  IN IF tooFewWords(highlightWords) \/ Len(endWords) = 0 THEN NoMatch
     ELSE
       LET startPositions == findWordInSpans(endWords[1], spanData)
           endPositions == findWordInSpans(endWords[Len(endWords)], spanData)
           candidates ==
             sortCandidates(generateCandidates(startPositions, endPositions))
           filtered == filterCandidates(spanData, candidates,
                                        uniqueWords(highlightWords))
       IN IF Len(filtered) = 0 THEN NoMatch ELSE filtered[1]

\* the body of highlightData.forEach up to the choice of bestCandidate:
\* NoMatch stands for each of the four early returns
matchHighlight(spanData, highlight) ==
  LET highlightWords == extractWords(highlight.text)
  IN IF tooFewWords(highlightWords) THEN NoMatch
     ELSE
       LET firstWord == highlightWords[1]
           lastWord == highlightWords[Len(highlightWords)]
           startPositions == findWordInSpans(firstWord, spanData)
           endPositions == findWordInSpans(lastWord, spanData)
       IN IF Len(startPositions) = 0 \/ Len(endPositions) = 0 THEN NoMatch
          ELSE
            LET candidates ==
                  sortCandidates(generateCandidates(startPositions, endPositions))
            IN IF Len(candidates) = 0 THEN NoMatch
               ELSE
                 LET filtered == filterCandidates(spanData, candidates,
                                                  uniqueWords(highlightWords))
                 IN IF Len(filtered) = 0 THEN NoMatch ELSE filtered[1]

\* ------------------------------------------------------------------------
\* Texts of the documents and of the highlight requests
\* ------------------------------------------------------------------------

TxtData == <<"D","a","t","a">>
TxtPrivacy == <<"p","r","i","v","a","c","y">>
TxtPrivacyComma == <<"P","r","i","v","a","c","y",",">>
TxtRequires == <<"r","e","q","u","i","r","e","s">>
TxtConsent == <<"c","o","n","s","e","n","t">>
TxtConsentDot == <<"c","o","n","s","e","n","t",".">>
TxtDataLower == <<"d","a","t","a">>
TxtRequire == <<"r","e","q","u","i","r","e">>
TxtConsents == <<"c","o","n","s","e","n","t","s">>
TxtFrom == <<"f","r","o","m">>
TxtUsers == <<"u","s","e","r","s">>
TxtDataRequires == <<"D","a","t","a"," ","r","e","q","u","i","r","e","s">>
TxtConsentFrom == <<"c","o","n","s","e","n","t"," ","f","r","o","m">>
TxtExportControlled == <<"E","x","p","o","r","t","-","c","o","n","t","r","o","l","l","e","d">>
TxtInformation == <<"i","n","f","o","r","m","a","t","i","o","n">>
TxtEmpty == <<>>

TxtPrivacyRequiresConsent == <<"p","r","i","v","a","c","y"," ","r","e","q","u","i","r","e","s"," ","c","o","n","s","e","n","t">>
TxtDataAlone == <<"d","a","t","a">>
TxtDataFrom == <<"d","a","t","a"," ","f","r","o","m">>

\* a document is the sequence of its pages, a page the sequence of the texts
\* of the spans of its text layer
DocTwoPages ==
  << <<TxtData, TxtPrivacy>>, <<TxtRequires, TxtConsent, TxtFrom, TxtUsers>> >>

\* first page: two spans with "data", and "privacy" ... "consent" three times
\* over, once without the middle word; second page: the end words only
DocRepeated ==
  << <<TxtData, TxtPrivacyComma, TxtConsentDot, TxtDataLower,
       TxtPrivacy, TxtRequire, TxtConsents>>,
     <<TxtPrivacy, TxtConsent>> >>

DocHyphen == << <<TxtExportControlled, TxtInformation>> >>

\* a page without text spans (a scanned page)
DocNoText == << <<>> >>

\* "privacy", "Data requires", many empty spans, then "consent from" at
\* distance MaxSpanDistance + 1 from the first span and MaxSpanDistance from
\* the second
DocLong ==
  << [k \in 1..(MaxSpanDistance + 3) |->
        IF k = 1 THEN TxtPrivacy
        ELSE IF k = 2 THEN TxtDataRequires
        ELSE IF k = MaxSpanDistance + 2 THEN TxtConsentFrom
        ELSE IF k = MaxSpanDistance + 3 THEN TxtUsers
        ELSE TxtEmpty] >>

Documents == {DocTwoPages, DocRepeated, DocHyphen, DocNoText, DocLong}

NoTitle == ""

HighlightPool ==
  { [id |-> "h1", page |-> 1, text |-> TxtPrivacyRequiresConsent,
     summary |-> "s1", title |-> "t1"],
    [id |-> "h2", page |-> 1, text |-> TxtDataAlone,
     summary |-> "s2", title |-> "t2"],
    [id |-> "h3", page |-> 2, text |-> TxtDataFrom,
     summary |-> "s3", title |-> NoTitle] }

\* longest list of highlight requests handed to the viewer
MaxHighlights == 2

\* the lists of requests with pairwise different ids
HighlightLists ==
  UNION { { l \in [1..n -> HighlightPool] :
              \A i, j \in 1..n : i # j => l[i].id # l[j].id } : n \in 0..MaxHighlights }

\* ------------------------------------------------------------------------
\* A second catalogue: the scenarios of single documents
\* ------------------------------------------------------------------------

TxtExportUnderscore == <<"E","x","p","o","r","t","_","c","o","n","t","r","o","l","l","e","d">>
TxtWholeSentence == <<"P","r","i","v","a","c","y"," ","r","e","q","u","i","r","e","s"," ","c","o","n","s","e","n","t",".">>

TxtExportControlledInformation == <<"e","x","p","o","r","t"," ","c","o","n","t","r","o","l","l","e","d"," ","i","n","f","o","r","m","a","t","i","o","n">>
TxtConsentAndPrivacyConsent == <<"c","o","n","s","e","n","t"," ","a","n","d"," ","p","r","i","v","a","c","y"," ","c","o","n","s","e","n","t">>
TxtToConsent == <<"t","o"," ","c","o","n","s","e","n","t">>
TxtGdprComplianceMandate == <<"G","D","P","R"," ","c","o","m","p","l","i","a","n","c","e"," ","m","a","n","d","a","t","e">>

\* the hyphenated fragment with an underscore in the place of the hyphen
DocUnderscore == << <<TxtExportUnderscore, TxtInformation>> >>

\* one span holds a whole sentence
DocOneFragment == << <<TxtWholeSentence, TxtUsers>> >>

\* "privacy" ... "consent" three times: once without the middle word, then
\* twice complete at the same distance
DocTies ==
  << <<TxtPrivacy, TxtConsent, TxtPrivacy, TxtRequires, TxtConsent,
       TxtPrivacy, TxtRequires, TxtConsent>> >>

ScenarioDocuments == {DocHyphen, DocUnderscore, DocOneFragment, DocTies}

ScenarioPool ==
  { [id |-> "e1", page |-> 1, text |-> TxtExportControlledInformation,
     summary |-> "s1", title |-> "t1"],
    [id |-> "e2", page |-> 1, text |-> TxtPrivacyRequiresConsent,
     summary |-> "s2", title |-> NoTitle],
    [id |-> "e3", page |-> 1, text |-> TxtGdprComplianceMandate,
     summary |-> "s3", title |-> "t3"],
    [id |-> "e4", page |-> 2, text |-> TxtConsentAndPrivacyConsent,
     summary |-> "s4", title |-> "t4"],
    [id |-> "e5", page |-> 1, text |-> TxtToConsent,
     summary |-> "s5", title |-> NoTitle] }

ScenarioLists ==
  UNION { { l \in [1..n -> ScenarioPool] :
              \A i, j \in 1..n : i # j => l[i].id # l[j].id } : n \in 0..MaxHighlights }

\* ------------------------------------------------------------------------
\* A third catalogue: every short text over a small alphabet
\* ------------------------------------------------------------------------

\* an upper-case letter, a lower-case letter, a digit, white space, a
\* punctuation mark and the underscore
Alphabet == {"A", "b", "7", " ", "-", "_"}

\* longest text of the catalogue
MaxTextLen == 3

AlphabetTexts == UNION { [1..n -> Alphabet] : n \in 0..MaxTextLen }

\* a page with a single span
AlphabetDocuments == { << <<t>> >> : t \in AlphabetTexts }

\* ------------------------------------------------------------------------
\* State of the viewer
\* ------------------------------------------------------------------------

VARIABLES
  pdf,                 \* the loaded document (fixed once loaded)
  textLayer,           \* page -> the spans of its rendered text layer
  renderedPages,       \* the Set renderedPages, in insertion order
  highlightData,       \* the list of highlight requests (prop)
  selectedHighlightId, \* state of the viewer
  hoveredHighlightId,  \* state of the viewer
  externalSelectedId,  \* prop selectedHighlightId (the parent's selectedChunk)
  bestCandidate,       \* per request: the range chosen by the latest run of
                       \* the re-apply effect, NoMatch when none was chosen
  dirty,               \* the effects whose dependencies changed since they ran
  currentPage,         \* state of the parent
  renderedPage,        \* prop currentPage of the latest render of the viewer
  scrollTrigger,       \* state of the parent, prop of the viewer
  lastRequestedPageRef, \* the page last scrolled to or last detected
  lastScrollTriggerRef, \* the scrollTrigger last scrolled for
  isUserScrollingRef,  \* scroll detection is enabled
  timers               \* the pending timers

vars == <<pdf, textLayer, renderedPages, highlightData, selectedHighlightId,
          hoveredHighlightId, externalSelectedId, bestCandidate, dirty,
          currentPage, renderedPage, scrollTrigger, lastRequestedPageRef,
          lastScrollTriggerRef, isUserScrollingRef, timers>>

\* page navigation and scroll detection
scrollVars == <<currentPage, renderedPage, scrollTrigger,
                lastRequestedPageRef, lastScrollTriggerRef,
                isUserScrollingRef, timers>>

Null == "null"

\* a dataset entry or style property that is not set
Undefined == "undefined"

\* Math.max and Math.min
Max(a, b) == IF a >= b THEN a ELSE b

Min(a, b) == IF a <= b THEN a ELSE b

\* numPages of the viewer and of the parent: handleDocumentLoadSuccess sets
\* both to the number of pages of the loaded document
numPages == Len(pdf)

\* the timer of the initial enable effect (1000 ms)
enableTimer == [kind |-> "enable", id |-> Null]

\* the timer held in scrollTimeoutRef (600 ms)
reenableTimer == [kind |-> "reenable", id |-> Null]

\* the timer of the scroll-to-highlight effect (100 ms), with the
\* externalSelectedId of its render
highlightTimer(id) == [kind |-> "highlight", id |-> id]

\* most clicks on chunk cards followed in one behaviour
MaxScrollTrigger == 1

\* The parent and the viewer once the document has loaded: page 1 is
\* current, nothing was scrolled to, scroll detection is off and the initial
\* enable effect has started its timer.
handleDocumentLoadSuccess ==
  /\ currentPage = 1
  /\ renderedPage = 1
  /\ scrollTrigger = 0
  /\ lastRequestedPageRef = 1
  /\ lastScrollTriggerRef = 0
  /\ isUserScrollingRef = FALSE
  /\ timers = {enableTimer}

HIGHLIGHT_COLOR == "rgba(249, 115, 22, 0.2)"
HIGHLIGHT_COLOR_HOVER == "rgba(249, 115, 22, 0.35)"
HIGHLIGHT_COLOR_SELECTED == "rgba(249, 115, 22, 0.5)"

\* a span as the text layer creates it
freshSpan(text) ==
  [textContent |-> text,
   highlightId |-> Undefined, highlightSummary |-> Undefined,
   highlightTitle |-> Undefined,
   backgroundColor |-> "", transform |-> "", boxShadow |-> ""]

\* clearHighlight resetting the style and leaving the dataset
clearHighlightStyleOnly(span) == [span EXCEPT !.backgroundColor = ""]

\* "Clear previous highlights from these spans"; the handlers are installed
\* and removed together with dataset.highlightId, which stands for them
clearHighlight(span) ==
  [span EXCEPT !.backgroundColor = "",
               !.highlightId = Undefined,
               !.highlightSummary = Undefined,
               !.highlightTitle = Undefined]

\* the assignments to one span of the chosen range (borderRadius, cursor
\* and transition get fixed values and are left out)
tagSpan(span, highlight, selected, hovered, external) ==
  LET isSelected == selected = highlight.id \/ external = highlight.id
      isHovered == hovered = highlight.id
  IN [span EXCEPT
        !.backgroundColor = IF isSelected THEN HIGHLIGHT_COLOR_SELECTED
                            ELSE IF isHovered THEN HIGHLIGHT_COLOR_HOVER
                            ELSE HIGHLIGHT_COLOR,
        !.transform = IF isHovered THEN "scale(1.002)" ELSE "scale(1)",
        !.boxShadow = IF isSelected THEN "0 2px 8px rgba(249, 115, 22, 0.30)"
                      ELSE IF isHovered THEN "0 1px 4px rgba(249, 115, 22, 0.25)"
                      ELSE "none",
        !.highlightId = highlight.id,
        !.highlightSummary = highlight.summary,
        !.highlightTitle = IF highlight.title # NoTitle THEN highlight.title ELSE @]

\* applyRange showing the selected request only once one is selected
applyRangeSelectedOnly(allSpans, best, highlight, selected, hovered, external) ==
  [k \in DOMAIN allSpans |->
     IF /\ best.start <= k - 1 /\ k - 1 <= best.end
        /\ (selected = Null \/ selected = highlight.id)
       THEN tagSpan(allSpans[k], highlight, selected, hovered, external)
       ELSE allSpans[k]]

\* applyRange leaving alone the spans that an earlier request has tagged
applyRangeKeepingFirst(allSpans, best, highlight, selected, hovered, external) ==
  [k \in DOMAIN allSpans |->
     IF best.start <= k - 1 /\ k - 1 <= best.end /\ allSpans[k].highlightId = Undefined
       THEN tagSpan(allSpans[k], highlight, selected, hovered, external)
       ELSE allSpans[k]]

\* for (let i = bestCandidate.start; i <= bestCandidate.end; i++) ...
applyRange(allSpans, best, highlight, selected, hovered, external) ==
  [k \in DOMAIN allSpans |->
     IF best.start <= k - 1 /\ k - 1 <= best.end
       THEN tagSpan(allSpans[k], highlight, selected, hovered, external)
       ELSE allSpans[k]]

\* forEachHighlight taking the words of the spans of a chosen range out of
\* the search for the requests that follow
RECURSIVE forEachHighlightConsuming(_, _, _, _, _, _, _, _)
forEachHighlightConsuming(spanData, allSpans, highlights, i, results, selected, hovered, external) ==
  IF i > Len(highlights) THEN [spans |-> allSpans, best |-> results]
  ELSE
    LET best == matchHighlight(spanData, highlights[i])
    IN forEachHighlightConsuming(
         [k \in DOMAIN spanData |->
            IF best.start <= k - 1 /\ k - 1 <= best.end
              THEN [spanData[k] EXCEPT !.words = <<>>] ELSE spanData[k]],
         IF best = NoMatch THEN allSpans
         ELSE applyRange(allSpans, best, highlights[i], selected, hovered, external),
         highlights, i + 1, Append(results, best), selected, hovered, external)

\* forEachHighlight giving up at the first request without a match
RECURSIVE forEachHighlightAbort(_, _, _, _, _, _, _, _)
forEachHighlightAbort(spanData, allSpans, highlights, i, results, selected, hovered, external) ==
  IF i > Len(highlights) THEN [spans |-> allSpans, best |-> results]
  ELSE
    LET best == matchHighlight(spanData, highlights[i])
    IN IF best = NoMatch
         THEN [spans |-> allSpans,
               best |-> results \o [k \in 1..(Len(highlights) - Len(results)) |-> NoMatch]]
         ELSE forEachHighlightAbort(spanData,
                applyRange(allSpans, best, highlights[i], selected, hovered, external),
                highlights, i + 1, Append(results, best), selected, hovered, external)

\* highlightData.forEach: a request without a match returns from its own
\* callback only, the following requests are processed
RECURSIVE forEachHighlight(_, _, _, _, _, _, _, _)
forEachHighlight(spanData, allSpans, highlights, i, results, selected, hovered, external) ==
  IF i > Len(highlights) THEN [spans |-> allSpans, best |-> results]
  ELSE
    LET best == matchHighlight(spanData, highlights[i])
    IN forEachHighlight(spanData,
         IF best = NoMatch THEN allSpans
         ELSE applyRange(allSpans, best, highlights[i], selected, hovered, external),
         highlights, i + 1, Append(results, best), selected, hovered, external)

\* renderedPages.forEach: clear the spans of every rendered page and collect
\* them, page after page in the iteration order of the Set
RECURSIVE collectSpans(_, _, _, _)
collectSpans(layer, rendered, k, allSpans) ==
  IF k > Len(rendered) THEN allSpans
  ELSE collectSpans(layer, rendered, k + 1,
         allSpans \o [l \in DOMAIN layer[rendered[k]] |->
                        clearHighlight(layer[rendered[k]][l])])

\* number of collected spans that precede those of the k-th rendered page
RECURSIVE spansBefore(_, _, _)
spansBefore(layer, rendered, k) ==
  IF k <= 1 THEN 0
  ELSE spansBefore(layer, rendered, k - 1) + Len(layer[rendered[k - 1]])

positionOf(rendered, p) == CHOOSE k \in DOMAIN rendered : rendered[k] = p

\* the spans are DOM elements: what is assigned to a collected span is
\* assigned to the span of its page
writeBack(layer, rendered, allSpans) ==
  [p \in DOMAIN layer |->
     IF p \in Range(rendered)
       THEN LET off == spansBefore(layer, rendered, positionOf(rendered, p))
            IN SubSeq(allSpans, off + 1, off + Len(layer[p]))
       ELSE layer[p]]

noResults(highlights) == [i \in DOMAIN highlights |-> NoMatch]

\* applyHighlights collecting the spans of those rendered pages only that a
\* request declares as its page
applyHighlightsDeclaredPages(layer, rendered, highlights, selected, hovered, external) ==
  LET declared(p) == \E i \in DOMAIN highlights : highlights[i].page = p
      pages == SelectSeq(rendered, declared)
      allSpans == collectSpans(layer, pages, 1, <<>>)
  IN IF Len(allSpans) = 0
       THEN [layer |-> writeBack(layer, pages, allSpans),
             best |-> noResults(highlights)]
       ELSE
         LET spanData == buildSpanData(allSpans)
             done == forEachHighlight(spanData, allSpans, highlights, 1, <<>>,
                                      selected, hovered, external)
         IN [layer |-> writeBack(layer, pages, done.spans), best |-> done.best]

applyHighlights(layer, rendered, highlights, selected, hovered, external) ==
  LET allSpans == collectSpans(layer, rendered, 1, <<>>)
  IN IF Len(allSpans) = 0
       THEN [layer |-> writeBack(layer, rendered, allSpans),
             best |-> noResults(highlights)]
       ELSE
         LET spanData == buildSpanData(allSpans)
             done == forEachHighlight(spanData, allSpans, highlights, 1, <<>>,
                                      selected, hovered, external)
         IN [layer |-> writeBack(layer, rendered, done.spans), best |-> done.best]

\* the effect "Re-apply highlights when highlightData or rendered pages change"
reapplyEffect(layer, rendered, highlights, selected, hovered, external) ==
  IF Len(highlights) = 0 \/ Len(rendered) = 0
    THEN [layer |-> layer, best |-> noResults(highlights)]
    ELSE applyHighlights(layer, rendered, highlights, selected, hovered, external)

\* the effect "Update highlight colors when hover/selection changes"
restyleSpan(span, selected, hovered, external) ==
  IF span.highlightId = Undefined THEN span
  ELSE
    LET isSelected == selected = span.highlightId \/ external = span.highlightId
        isHovered == hovered = span.highlightId
    IN [span EXCEPT
          !.backgroundColor = IF isSelected THEN HIGHLIGHT_COLOR_SELECTED
                              ELSE IF isHovered THEN HIGHLIGHT_COLOR_HOVER
                              ELSE HIGHLIGHT_COLOR,
          !.transform = IF isHovered THEN "scale(1.01)" ELSE "scale(1)",
          !.boxShadow = IF isSelected THEN "0 2px 8px rgba(249, 115, 22, 0.3)"
                        ELSE IF isHovered THEN "0 1px 4px rgba(249, 115, 22, 0.2)"
                        ELSE "none"]

styleEffect(layer, rendered, selected, hovered, external) ==
  [p \in DOMAIN layer |->
     IF p \in Range(rendered)
       THEN [l \in DOMAIN layer[p] |-> restyleSpan(layer[p][l], selected, hovered, external)]
       ELSE layer[p]]

\* ------------------------------------------------------------------------
\* Operations
\* ------------------------------------------------------------------------

Init ==
  /\ pdf \in Documents
  /\ textLayer = [p \in DOMAIN pdf |-> <<>>]
  /\ renderedPages = <<>>
  /\ highlightData = <<>>
  /\ selectedHighlightId = Null
  /\ hoveredHighlightId = Null
  /\ externalSelectedId = Null
  /\ bestCandidate = <<>>
  /\ dirty = {}
  /\ handleDocumentLoadSuccess

\* handlePageRenderSuccess keeping the Set, and so the dependencies of the
\* effects, when the page is already in it
handlePageRenderSuccessSameSet(pageNumber) ==
  /\ textLayer' = [textLayer EXCEPT
                     ![pageNumber] = [l \in DOMAIN pdf[pageNumber] |->
                                        freshSpan(pdf[pageNumber][l])]]
  /\ renderedPages' = IF pageNumber \in Range(renderedPages) THEN renderedPages
                      ELSE Append(renderedPages, pageNumber)
  /\ dirty' = IF pageNumber \in Range(renderedPages) THEN dirty
              ELSE dirty \cup {"style", "apply"}
  /\ UNCHANGED <<pdf, highlightData, selectedHighlightId, hoveredHighlightId,
                 externalSelectedId, bestCandidate>>
  /\ UNCHANGED scrollVars

\* A page finished rendering (first rendering, or again after a zoom
\* change): its text layer consists of new spans, and onRenderSuccess puts a
\* new Set into renderedPages.
handlePageRenderSuccess(pageNumber) ==
  /\ textLayer' = [textLayer EXCEPT
                     ![pageNumber] = [l \in DOMAIN pdf[pageNumber] |->
                                        freshSpan(pdf[pageNumber][l])]]
  /\ renderedPages' = IF pageNumber \in Range(renderedPages) THEN renderedPages
                      ELSE Append(renderedPages, pageNumber)
  /\ dirty' = dirty \cup {"style", "apply"}
  /\ UNCHANGED <<pdf, highlightData, selectedHighlightId, hoveredHighlightId,
                 externalSelectedId, bestCandidate>>
  /\ UNCHANGED scrollVars

\* The parent received a highlights response and renders the viewer with the
\* list built by getHighlightData (a new array on every render of the parent)
\* and with a new onPageChange, so that handleScroll and the scroll listener
\* are new as well.
setHighlights(list) ==
  /\ highlightData' = list
  /\ dirty' = dirty \cup {"apply", "listener"}
  /\ UNCHANGED <<pdf, textLayer, renderedPages, selectedHighlightId,
                 hoveredHighlightId, externalSelectedId, bestCandidate>>
  /\ UNCHANGED scrollVars

\* The effects that a call of setCurrentPage makes due. The parent renders
\* the viewer with the new page; while the effects of a committed render
\* are pending, React runs them, with the page of their render, before it
\* renders again.
setCurrentPage(page) ==
  IF dirty = {} /\ page # currentPage THEN {"page", "listener"} ELSE {}

\* the page of the latest render after a call of setCurrentPage
pageProp(page) == IF dirty = {} THEN page ELSE renderedPage

\* The scroll-to-page effect goes on when the document is loaded and the
\* current page is not the page last requested or detected.
scrollToPage(page, lastRequested) ==
  /\ numPages # 0
  /\ lastRequested # page

\* The scroll-to-highlight effect goes on for a scrollTrigger that is set and
\* new, when a chunk is selected.
scrollToHighlight(trigger, lastTrigger, external) ==
  /\ trigger # 0
  /\ trigger # lastTrigger
  /\ external # Null

\* The cleanup of the scroll listener effect: clearTimeout(scrollTimeoutRef).
removeScrollListener(pending) == pending \ {reenableTimer}

\* React runs the cleanups of the effects whose dependencies changed and
\* then these effects, in the order of their declaration, with the values
\* of the render they belong to: the scroll to the current page, the
\* selection sync, the scroll to the selected highlight, the scroll
\* listener, the style update, the re-apply effect.
runEffects ==
  /\ dirty # {}
  /\ LET cleaned == IF "listener" \in dirty
                      THEN removeScrollListener(timers) ELSE timers
         toPage == "page" \in dirty
                     /\ scrollToPage(renderedPage, lastRequestedPageRef)
         \* pageRefs.current[currentPage] is an element
         pageElement == renderedPage \in 1..numPages
         afterPage == IF toPage /\ pageElement
                        THEN (cleaned \ {reenableTimer}) \cup {reenableTimer}
                        ELSE cleaned
         toHighlight == "scroll" \in dirty
                          /\ scrollToHighlight(scrollTrigger, lastScrollTriggerRef,
                                               externalSelectedId)
     IN /\ lastRequestedPageRef' = IF toPage THEN renderedPage
                                   ELSE lastRequestedPageRef
        /\ isUserScrollingRef' = IF toPage /\ pageElement THEN FALSE
                                 ELSE isUserScrollingRef
        /\ lastScrollTriggerRef' = IF toHighlight THEN scrollTrigger
                                   ELSE lastScrollTriggerRef
        /\ timers' = IF toHighlight
                       THEN afterPage \cup {highlightTimer(externalSelectedId)}
                       ELSE afterPage
  /\ renderedPage' = currentPage
  /\ UNCHANGED <<currentPage, scrollTrigger>>
  /\ LET styled == IF "style" \in dirty /\ Len(renderedPages) # 0
                     THEN styleEffect(textLayer, renderedPages, selectedHighlightId,
                                      hoveredHighlightId, externalSelectedId)
                     ELSE textLayer
         applied == IF "apply" \in dirty
                      THEN reapplyEffect(styled, renderedPages, highlightData,
                                         selectedHighlightId, hoveredHighlightId,
                                         externalSelectedId)
                      ELSE [layer |-> styled, best |-> bestCandidate]
     IN /\ textLayer' = applied.layer
        /\ bestCandidate' = applied.best
  /\ selectedHighlightId' =
       IF "sync" \in dirty /\ externalSelectedId # Null
         THEN externalSelectedId ELSE selectedHighlightId
  /\ dirty' = (IF selectedHighlightId' # selectedHighlightId
                 THEN {"style", "apply"} ELSE {})
               \cup (IF currentPage # renderedPage
                       THEN {"page", "listener"} ELSE {})
  /\ UNCHANGED <<pdf, renderedPages, highlightData, hoveredHighlightId,
                 externalSelectedId>>

Next ==
  \/ \E pageNumber \in DOMAIN pdf : handlePageRenderSuccess(pageNumber)
  \/ \E list \in HighlightLists : setHighlights(list)
  \/ runEffects

Spec == Init /\ [][Next]_vars

\* The viewer on a document and with requests of the second catalogue.
InitScenarios ==
  /\ pdf \in ScenarioDocuments
  /\ textLayer = [p \in DOMAIN pdf |-> <<>>]
  /\ renderedPages = <<>>
  /\ highlightData = <<>>
  /\ selectedHighlightId = Null
  /\ hoveredHighlightId = Null
  /\ externalSelectedId = Null
  /\ bestCandidate = <<>>
  /\ dirty = {}
  /\ handleDocumentLoadSuccess

NextScenarios ==
  \/ \E pageNumber \in DOMAIN pdf : handlePageRenderSuccess(pageNumber)
  \/ \E list \in ScenarioLists : setHighlights(list)
  \/ runEffects

SpecScenarios == InitScenarios /\ [][NextScenarios]_vars

\* The pointer enters a tagged span: el.onmouseenter, installed together
\* with dataset.highlightId for the same request.
onmouseenter(p, l) ==
  /\ textLayer[p][l].highlightId # Undefined
  /\ hoveredHighlightId' = textLayer[p][l].highlightId
  /\ dirty' = IF hoveredHighlightId' # hoveredHighlightId
                THEN dirty \cup {"style", "apply"} ELSE dirty
  /\ UNCHANGED <<pdf, textLayer, renderedPages, highlightData,
                 selectedHighlightId, externalSelectedId, bestCandidate>>
  /\ UNCHANGED scrollVars

\* The pointer leaves a tagged span: el.onmouseleave.
onmouseleave(p, l) ==
  /\ textLayer[p][l].highlightId # Undefined
  /\ hoveredHighlightId' = Null
  /\ dirty' = IF hoveredHighlightId # Null
                THEN dirty \cup {"style", "apply"} ELSE dirty
  /\ UNCHANGED <<pdf, textLayer, renderedPages, highlightData,
                 selectedHighlightId, externalSelectedId, bestCandidate>>
  /\ UNCHANGED scrollVars

\* onclick selecting the request in the viewer without telling the parent
onclickViewerOnly(p, l) ==
  /\ textLayer[p][l].highlightId # Undefined
  /\ selectedHighlightId' = textLayer[p][l].highlightId
  /\ dirty' = IF selectedHighlightId' # selectedHighlightId
                THEN dirty \cup {"style", "apply"} ELSE dirty
  /\ UNCHANGED <<pdf, textLayer, renderedPages, highlightData,
                 hoveredHighlightId, externalSelectedId, bestCandidate>>
  /\ UNCHANGED scrollVars

\* A click on a tagged span: el.onclick selects the request in the viewer
\* and, through onHighlightClick, in the parent (handleHighlightClick sets
\* selectedChunk); a parent that renders again hands over a new
\* highlightData array.
onclick(p, l) ==
  /\ textLayer[p][l].highlightId # Undefined
  /\ selectedHighlightId' = textLayer[p][l].highlightId
  /\ externalSelectedId' = textLayer[p][l].highlightId
  /\ dirty' = dirty
       \cup (IF selectedHighlightId' # selectedHighlightId
               THEN {"style", "apply"} ELSE {})
       \cup (IF externalSelectedId' # externalSelectedId
               THEN {"sync", "style", "apply", "scroll", "listener"} ELSE {})
  /\ UNCHANGED <<pdf, textLayer, renderedPages, highlightData,
                 hoveredHighlightId, bestCandidate>>
  /\ UNCHANGED scrollVars

\* A click on the card of a chunk in the side bar: navigateToChunk sets
\* selectedChunk, makes the page of the chunk the current page and
\* increments scrollTrigger, so the parent renders again.
navigateToChunk(chunk) ==
  /\ scrollTrigger < MaxScrollTrigger
  /\ externalSelectedId' = chunk.id
  /\ currentPage' = chunk.page
  /\ renderedPage' = pageProp(chunk.page)
  /\ scrollTrigger' = scrollTrigger + 1
  /\ dirty' = dirty \cup {"apply", "scroll", "listener"}
       \cup (IF externalSelectedId' # externalSelectedId
               THEN {"sync", "style"} ELSE {})
       \cup setCurrentPage(chunk.page)
  /\ UNCHANGED <<pdf, textLayer, renderedPages, highlightData,
                 selectedHighlightId, hoveredHighlightId, bestCandidate>>
  /\ UNCHANGED <<lastRequestedPageRef, lastScrollTriggerRef,
                 isUserScrollingRef, timers>>

\* The button before the page number: the previous page, when there is one
\* (the button is disabled on page 1).
previousPage ==
  /\ ~(currentPage <= 1)
  /\ currentPage' = Max(1, currentPage - 1)
  /\ renderedPage' = pageProp(currentPage')
  /\ dirty' = dirty \cup setCurrentPage(currentPage')
  /\ UNCHANGED <<pdf, textLayer, renderedPages, highlightData,
                 selectedHighlightId, hoveredHighlightId, externalSelectedId,
                 bestCandidate>>
  /\ UNCHANGED <<scrollTrigger, lastRequestedPageRef, lastScrollTriggerRef,
                 isUserScrollingRef, timers>>

\* The button after the page number: the next page, when there is one (the
\* button is disabled on the last page and beyond).
nextPage ==
  /\ ~(currentPage >= numPages)
  /\ currentPage' = Min(numPages, currentPage + 1)
  /\ renderedPage' = pageProp(currentPage')
  /\ dirty' = dirty \cup setCurrentPage(currentPage')
  /\ UNCHANGED <<pdf, textLayer, renderedPages, highlightData,
                 selectedHighlightId, hoveredHighlightId, externalSelectedId,
                 bestCandidate>>
  /\ UNCHANGED <<scrollTrigger, lastRequestedPageRef, lastScrollTriggerRef,
                 isUserScrollingRef, timers>>

\* An edit of the page number input: onChange takes the number typed if it
\* is a page of the document.
onChange(page) ==
  /\ currentPage' = IF page >= 1 /\ page <= numPages THEN page ELSE currentPage
  /\ renderedPage' = pageProp(currentPage')
  /\ dirty' = dirty \cup setCurrentPage(currentPage')
  /\ UNCHANGED <<pdf, textLayer, renderedPages, highlightData,
                 selectedHighlightId, hoveredHighlightId, externalSelectedId,
                 bestCandidate>>
  /\ UNCHANGED <<scrollTrigger, lastRequestedPageRef, lastScrollTriggerRef,
                 isUserScrollingRef, timers>>

\* A scroll event with page visiblePage the last one whose top is above the
\* line 100 px below the top of the container: handleScroll, when scroll
\* detection is enabled, reports a page other than the last requested or
\* detected one through onPageChange, which makes it the current page.
handleScroll(visiblePage) ==
  /\ isUserScrollingRef
  /\ visiblePage # lastRequestedPageRef
  /\ lastRequestedPageRef' = visiblePage
  /\ currentPage' = visiblePage
  /\ renderedPage' = pageProp(visiblePage)
  /\ dirty' = dirty \cup setCurrentPage(visiblePage)
  /\ UNCHANGED <<pdf, textLayer, renderedPages, highlightData,
                 selectedHighlightId, hoveredHighlightId, externalSelectedId,
                 bestCandidate>>
  /\ UNCHANGED <<scrollTrigger, lastScrollTriggerRef, isUserScrollingRef, timers>>

\* The timer of the initial enable effect expires.
enableTimeout ==
  /\ enableTimer \in timers
  /\ isUserScrollingRef' = TRUE
  /\ timers' = timers \ {enableTimer}
  /\ UNCHANGED <<pdf, textLayer, renderedPages, highlightData,
                 selectedHighlightId, hoveredHighlightId, externalSelectedId,
                 bestCandidate, dirty>>
  /\ UNCHANGED <<currentPage, renderedPage, scrollTrigger,
                 lastRequestedPageRef, lastScrollTriggerRef>>

\* The timer held in scrollTimeoutRef expires.
scrollTimeout ==
  /\ reenableTimer \in timers
  /\ isUserScrollingRef' = TRUE
  /\ timers' = timers \ {reenableTimer}
  /\ UNCHANGED <<pdf, textLayer, renderedPages, highlightData,
                 selectedHighlightId, hoveredHighlightId, externalSelectedId,
                 bestCandidate, dirty>>
  /\ UNCHANGED <<currentPage, renderedPage, scrollTrigger,
                 lastRequestedPageRef, lastScrollTriggerRef>>

\* The timer of the scroll-to-highlight effect expires: if a span carries
\* the id, scroll detection is switched off, the span is scrolled to and
\* the timer in scrollTimeoutRef is replaced.
highlightTimeout(id) ==
  /\ highlightTimer(id) \in timers
  /\ LET highlightSpan == \E q \in DOMAIN textLayer : \E l \in DOMAIN textLayer[q] :
                             textLayer[q][l].highlightId = id
     IN IF highlightSpan
          THEN /\ isUserScrollingRef' = FALSE
               /\ timers' = ((timers \ {highlightTimer(id)}) \ {reenableTimer})
                               \cup {reenableTimer}
          ELSE /\ isUserScrollingRef' = isUserScrollingRef
               /\ timers' = timers \ {highlightTimer(id)}
  /\ UNCHANGED <<pdf, textLayer, renderedPages, highlightData,
                 selectedHighlightId, hoveredHighlightId, externalSelectedId,
                 bestCandidate, dirty>>
  /\ UNCHANGED <<currentPage, renderedPage, scrollTrigger,
                 lastRequestedPageRef, lastScrollTriggerRef>>

\* documents shown while the pages are navigated: one of two pages with
\* spans that the requests match, one of a single page that they do not
NavigationDocuments == {DocTwoPages, DocHyphen}

\* the requests shown while the pages are navigated: "data from" declared
\* on page 2, then "privacy requires consent" declared on page 1
NavigationList ==
  << CHOOSE h \in HighlightPool : h.id = "h3",
     CHOOSE h \in HighlightPool : h.id = "h1" >>

\* numbers typed into the page number input
PageInputs == 0..3

\* The loaded document with every page rendered in the order of the pages
\* and the effects run for the requests.
InitNavigation ==
  /\ pdf \in NavigationDocuments
  /\ renderedPages = [k \in DOMAIN pdf |-> k]
  /\ highlightData = NavigationList
  /\ selectedHighlightId = Null
  /\ hoveredHighlightId = Null
  /\ externalSelectedId = Null
  /\ dirty = {}
  /\ handleDocumentLoadSuccess
  /\ \E fresh \in {[q \in DOMAIN pdf |->
                       [l \in DOMAIN pdf[q] |-> freshSpan(pdf[q][l])]]} :
       \E first \in {reapplyEffect(fresh, renderedPages, highlightData,
                                   Null, Null, Null)} :
         /\ textLayer = first.layer
         /\ bestCandidate = first.best

NextNavigation ==
  \/ previousPage
  \/ nextPage
  \/ \E page \in PageInputs : onChange(page)
  \/ \E visiblePage \in 1..numPages : handleScroll(visiblePage)
  \/ \E k \in DOMAIN highlightData : navigateToChunk(highlightData[k])
  \/ \E q \in DOMAIN textLayer : \E l \in DOMAIN textLayer[q] : onclick(q, l)
  \/ enableTimeout
  \/ scrollTimeout
  \/ \E k \in DOMAIN highlightData : highlightTimeout(highlightData[k].id)
  \/ runEffects

SpecNavigation == InitNavigation /\ [][NextNavigation]_vars

\* The viewer while the reader scrolls and clicks on highlights: the parent
\* changes the current page through onPageChange only.
NextDetection ==
  \/ \E visiblePage \in 1..numPages : handleScroll(visiblePage)
  \/ \E q \in DOMAIN textLayer : \E l \in DOMAIN textLayer[q] : onclick(q, l)
  \/ enableTimeout
  \/ scrollTimeout
  \/ runEffects

SpecDetection == InitNavigation /\ [][NextDetection]_vars

\* documents shown while the pointer and the selection are followed
InteractionDocuments == {DocTwoPages, DocRepeated}

\* The viewer after every page of the document has rendered and the effects
\* have run for a list of requests and then for a second one: nothing is
\* hovered or selected yet.
InitInteraction ==
  /\ pdf \in InteractionDocuments
  /\ renderedPages \in { r \in [DOMAIN pdf -> DOMAIN pdf] : Range(r) = DOMAIN pdf }
  /\ highlightData \in HighlightLists
  /\ selectedHighlightId = Null
  /\ hoveredHighlightId = Null
  /\ externalSelectedId = Null
  /\ dirty = {}
  /\ handleDocumentLoadSuccess
  /\ \E earlier \in HighlightLists :
       \E fresh \in {[q \in DOMAIN pdf |->
                        [l \in DOMAIN pdf[q] |-> freshSpan(pdf[q][l])]]} :
         \E first \in {reapplyEffect(fresh, renderedPages, earlier,
                                     Null, Null, Null)} :
           \E second \in {reapplyEffect(first.layer, renderedPages, highlightData,
                                        Null, Null, Null)} :
             /\ textLayer = second.layer
             /\ bestCandidate = second.best

NextInteraction ==
  \/ \E q \in DOMAIN textLayer : \E l \in DOMAIN textLayer[q] : onmouseenter(q, l)
  \/ \E q \in DOMAIN textLayer : \E l \in DOMAIN textLayer[q] : onmouseleave(q, l)
  \/ \E q \in DOMAIN textLayer : \E l \in DOMAIN textLayer[q] : onclick(q, l)
  \/ runEffects

SpecInteraction == InitInteraction /\ [][NextInteraction]_vars

\* The viewer on a one-span page of the third catalogue; the request, when
\* there is one, asks for the text of that span.
InitNormalize ==
  /\ pdf \in AlphabetDocuments
  /\ textLayer = [p \in DOMAIN pdf |-> <<>>]
  /\ renderedPages = <<>>
  /\ highlightData = <<>>
  /\ selectedHighlightId = Null
  /\ hoveredHighlightId = Null
  /\ externalSelectedId = Null
  /\ bestCandidate = <<>>
  /\ dirty = {}
  /\ handleDocumentLoadSuccess

NextNormalize ==
  \/ \E pageNumber \in DOMAIN pdf : handlePageRenderSuccess(pageNumber)
  \/ setHighlights(<<>>)
  \/ setHighlights(<<[id |-> "n1", page |-> 1, text |-> pdf[1][1],
                      summary |-> "s1", title |-> NoTitle]>>)
  \/ runEffects

SpecNormalize == InitNormalize /\ [][NextNormalize]_vars

\* ------------------------------------------------------------------------
\* Properties
\* ------------------------------------------------------------------------

\* every effect has run since the latest change of its dependencies
Settled == dirty = {}

\* the current fragment list: the spans of the rendered pages in the order
\* in which a pass collects them; fragment g (counted from 0) is Fragments[g + 1]
Fragments == collectSpans(textLayer, renderedPages, 1, <<>>)

FragmentTexts == [k \in DOMAIN Fragments |-> Fragments[k].textContent]

FragmentIndices == 0..(Len(Fragments) - 1)

\* the normalized words of every fragment
FragmentWords == [k \in DOMAIN Fragments |-> Range(extractWords(Fragments[k].textContent))]

IsSubstring(a, b) ==
  \E i \in 1..(Len(b) - Len(a) + 1) : \A j \in 1..Len(a) : b[i + j - 1] = a[j]

LooseMatch(a, b) == IsSubstring(a, b) \/ IsSubstring(b, a)

FragmentContains(W, g, word) == \E fw \in W[g + 1] : LooseMatch(fw, word)

FragmentsWith(W, word) == { g \in 0..(Len(W) - 1) : FragmentContains(W, g, word) }

TargetWords(i) == extractWords(highlightData[i].text)

SignificantWords(words) == { w \in Range(words) : w \notin commonWords }

CoveredIn(W, words, s, e) ==
  \A w \in SignificantWords(words) : \E g \in s..e : FragmentContains(W, g, w)

\* the candidate ranges of a word sequence that pass the word-coverage filter
Survivors(W, words) ==
  { c \in FragmentsWith(W, words[1]) \X FragmentsWith(W, words[Len(words)]) :
      /\ c[2] > c[1]
      /\ c[2] - c[1] <= 500
      /\ CoveredIn(W, words, c[1], c[2]) }

CandidatePairs(W, words) ==
  { c \in FragmentsWith(W, words[1]) \X FragmentsWith(W, words[Len(words)]) :
      c[2] > c[1] /\ c[2] - c[1] <= 500 }

Present(i) == bestCandidate[i] # NoMatch

TaggedFor(id) ==
  \E p \in DOMAIN textLayer : \E l \in DOMAIN textLayer[p] :
    textLayer[p][l].highlightId = id

\* C1: a matched range has the smallest end - start among the candidate
\* ranges of its target that pass the word-coverage filter.
C1_SmallestSpan ==
  Settled =>
    \A i \in DOMAIN highlightData :
      Present(i) =>
        \A c \in Survivors(FragmentWords, TargetWords(i)) :
          c[2] - c[1] >= bestCandidate[i].end - bestCandidate[i].start

\* a target is matched although a longer candidate range passes the filter too
C1_Witness ==
  /\ Settled
  /\ \E i \in DOMAIN highlightData :
       /\ Present(i)
       /\ \E c \in Survivors(FragmentWords, TargetWords(i)) :
            c[2] - c[1] > bestCandidate[i].end - bestCandidate[i].start

\* C2: in a matched range every distinct word of the target that is not a
\* stop-word loose-matches a word of some fragment of the range.
C2_Coverage ==
  Settled =>
    \A i \in DOMAIN highlightData :
      Present(i) =>
        \A w \in SignificantWords(TargetWords(i)) :
          \E g \in bestCandidate[i].start..bestCandidate[i].end :
            FragmentContains(FragmentWords, g, w)

\* a target is matched although a shorter candidate range exists that lacks
\* one of its words
C2_Witness ==
  /\ Settled
  /\ \E i \in DOMAIN highlightData :
       /\ Present(i)
       /\ \E c \in CandidatePairs(FragmentWords, TargetWords(i)) :
            /\ c[2] - c[1] < bestCandidate[i].end - bestCandidate[i].start
            /\ ~CoveredIn(FragmentWords, TargetWords(i), c[1], c[2])

\* C3: a matched range has start <= end, end - start <= 500, and both ends
\* are indices of the current fragment list.
C3_RangeBounds ==
  Settled =>
    \A i \in DOMAIN highlightData :
      Present(i) =>
        /\ bestCandidate[i].start <= bestCandidate[i].end
        /\ bestCandidate[i].end - bestCandidate[i].start <= 500
        /\ bestCandidate[i].start \in FragmentIndices
        /\ bestCandidate[i].end \in FragmentIndices

\* a range of exactly 500 is matched while another target of the list, whose
\* end words are 501 fragments apart, is not
C3_Witness ==
  /\ Settled
  /\ \E i, j \in DOMAIN highlightData :
       /\ Present(i)
       /\ bestCandidate[i].end - bestCandidate[i].start = 500
       /\ ~Present(j)
       /\ Len(TargetWords(j)) >= 2
       /\ \E s \in FragmentsWith(FragmentWords, TargetWords(j)[1]) :
            \E e \in FragmentsWith(FragmentWords, TargetWords(j)[Len(TargetWords(j))]) :
              e - s = 501

\* C4 as stated: a target with fewer than 2 significant words (normalized
\* words that are not stop-words) gets no range and tags no fragment.
C4_FewSignificantWords ==
  Settled =>
    \A i \in DOMAIN highlightData :
      Cardinality(SignificantWords(TargetWords(i))) < 2 =>
        ~Present(i) /\ ~TaggedFor(highlightData[i].id)

\* C4 amended: a target whose normalized word sequence (stop-words included)
\* has fewer than 2 entries gets no range and tags no fragment.
C4_FewWords ==
  Settled =>
    \A i \in DOMAIN highlightData :
      Len(TargetWords(i)) < 2 =>
        ~Present(i) /\ ~TaggedFor(highlightData[i].id)

\* a one-word target is left unmatched although two different fragments
\* contain its word
C4_Witness ==
  /\ Settled
  /\ \E i \in DOMAIN highlightData :
       /\ Len(TargetWords(i)) = 1
       /\ ~Present(i)
       /\ Cardinality(FragmentsWith(FragmentWords, TargetWords(i)[1])) >= 2

\* C5: a target has no range exactly when its word sequence is too short, or
\* no fragment has its first word, or none has its last word, or no start/end
\* pair has end > start within the cap, or no candidate passes the filter.
C5_AbsentExactly ==
  Settled =>
    \A i \in DOMAIN highlightData :
      ~Present(i) <=>
        \/ Len(TargetWords(i)) < 2
        \/ FragmentsWith(FragmentWords, TargetWords(i)[1]) = {}
        \/ FragmentsWith(FragmentWords, TargetWords(i)[Len(TargetWords(i))]) = {}
        \/ CandidatePairs(FragmentWords, TargetWords(i)) = {}
        \/ Survivors(FragmentWords, TargetWords(i)) = {}

\* a target has candidate ranges, none passes the filter, and it has no range
C5_Witness ==
  /\ Settled
  /\ \E i \in DOMAIN highlightData :
       /\ Len(TargetWords(i)) >= 2
       /\ CandidatePairs(FragmentWords, TargetWords(i)) # {}
       /\ Survivors(FragmentWords, TargetWords(i)) = {}
       /\ ~Present(i)

RemoveAt(seq, i) == SubSeq(seq, 1, i - 1) \o SubSeq(seq, i + 1, Len(seq))

PassWithout(i) ==
  applyHighlights(textLayer, renderedPages, RemoveAt(highlightData, i),
                  selectedHighlightId, hoveredHighlightId, externalSelectedId)

\* C6: the pass yields one outcome per target, and a target without a match
\* changes nothing for the targets after it: each gets the outcome it gets
\* from a pass over the list without the unmatched target.
C6_UnmatchableSkipped ==
  Settled =>
    /\ Len(bestCandidate) = Len(highlightData)
    /\ Len(renderedPages) > 0 =>
         \A i \in DOMAIN highlightData :
           ~Present(i) =>
             \A j \in DOMAIN highlightData :
               j > i => bestCandidate[j] = PassWithout(i).best[j - 1]

\* an unmatched target is followed by a matched one
C6_Witness ==
  /\ Settled
  /\ \E i, j \in DOMAIN highlightData : i < j /\ ~Present(i) /\ Present(j)

\* the dataset of every span
Tags(layer) ==
  [p \in DOMAIN layer |->
     [l \in DOMAIN layer[p] |->
        <<layer[p][l].highlightId, layer[p][l].highlightSummary,
          layer[p][l].highlightTitle>>]]

HighlightIds(layer) ==
  [p \in DOMAIN layer |-> [l \in DOMAIN layer[p] |-> layer[p][l].highlightId]]

\* the text layers as they are before any pass
FreshLayer ==
  [p \in DOMAIN textLayer |->
     [l \in DOMAIN textLayer[p] |-> freshSpan(textLayer[p][l].textContent)]]

PassOver(layer) ==
  applyHighlights(layer, renderedPages, highlightData,
                  selectedHighlightId, hoveredHighlightId, externalSelectedId)

\* C7: once the effects have run, the spans are tagged as a pass over the
\* untouched spans and the current target list tags them.
C7_TagsFromScratch ==
  Settled => HighlightIds(textLayer) = HighlightIds(PassOver(FreshLayer).layer)

\* C8: a pass over the spans as they are, a second pass over its outcome and
\* a pass over untouched spans give the same ranges and the same tags.
C8_Idempotent ==
  \A once \in {PassOver(textLayer)} :
    \A twice \in {PassOver(once.layer)} :
      \A scratch \in {PassOver(FreshLayer)} :
        /\ twice.best = once.best
        /\ Tags(twice.layer) = Tags(once.layer)
        /\ scratch.best = once.best
        /\ Tags(scratch.layer) = Tags(once.layer)

\* the spans carry tags of an earlier pass that a pass for the current
\* target list does not produce
C8_Witness ==
  /\ Len(highlightData) > 0
  /\ \E scratch \in {PassOver(FreshLayer)} :
       \E p \in DOMAIN textLayer : \E l \in DOMAIN textLayer[p] :
         /\ textLayer[p][l].highlightId # Undefined
         /\ scratch.layer[p][l].highlightId # textLayer[p][l].highlightId

\* C9: with no fragment or no target, no range is produced and no fragment
\* is tagged once the effects have run.
C9_DegenerateEmpty ==
  (Settled /\ (Len(Fragments) = 0 \/ Len(highlightData) = 0)) =>
    /\ \A i \in DOMAIN highlightData : ~Present(i)
    /\ \A p \in DOMAIN textLayer : \A l \in DOMAIN textLayer[p] :
         textLayer[p][l].highlightId = Undefined

ScenarioAFragments ==
  <<TxtData, TxtPrivacy, TxtRequires, TxtConsent, TxtFrom, TxtUsers>>

\* C10: when exactly one fragment s has the first word and exactly one
\* fragment e the last word, s < e <= s + 500 and [s, e] covers the target,
\* the range is {s, e}; the fragments of scenario A with the target "privacy
\* requires consent" give the range 1..3.
C10_UniqueEnds ==
  Settled =>
    \A i \in DOMAIN highlightData :
      /\ Len(TargetWords(i)) >= 1 =>
           LET S == FragmentsWith(FragmentWords, TargetWords(i)[1])
               E == FragmentsWith(FragmentWords, TargetWords(i)[Len(TargetWords(i))])
           IN (Cardinality(S) = 1 /\ Cardinality(E) = 1) =>
                \A s \in S, e \in E :
                  ( /\ s < e
                    /\ e - s <= 500
                    /\ CoveredIn(FragmentWords, TargetWords(i), s, e) )
                  => bestCandidate[i] = [start |-> s, end |-> e]
      /\ ( FragmentTexts = ScenarioAFragments
           /\ highlightData[i].text = TxtPrivacyRequiresConsent )
         => bestCandidate[i] = [start |-> 1, end |-> 3]

\* scenario A itself
C10_Witness ==
  /\ Settled
  /\ FragmentTexts = ScenarioAFragments
  /\ \E i \in DOMAIN highlightData :
       /\ highlightData[i].text = TxtPrivacyRequiresConsent
       /\ bestCandidate[i] = [start |-> 1, end |-> 3]

\* the maximal runs of letters and digits of a text, in lower case, that are
\* long enough to be a word of a target
JoinedWords(text) ==
  Range(SelectSeq(
    splitWhiteSpace([k \in DOMAIN text |->
                       IF LowerChar(text[k]) \in Range(LowerCaseLetters) \cup Digits
                         THEN LowerChar(text[k]) ELSE " "]),
    LongEnough))

ScenarioDFragments == <<TxtExportControlled, TxtInformation>>

\* C11: the fragments "Export-controlled", "information" and the target
\* "export controlled information" give the range 0..1, and every fragment
\* is found for each of the words its text joins by punctuation.
C11_PunctuationJoined ==
  Settled =>
    /\ \A i \in DOMAIN highlightData :
         ( FragmentTexts = ScenarioDFragments
           /\ highlightData[i].text = TxtExportControlledInformation )
         => bestCandidate[i] = [start |-> 0, end |-> 1]
    /\ \A spanData \in {buildSpanData(Fragments)} :
         \A g \in FragmentIndices :
           \A w \in JoinedWords(FragmentTexts[g + 1]) :
             g \in Range(findWordInSpans(w, spanData))

\* scenario D itself, both fragments tagged for the target
C11_Witness ==
  /\ Settled
  /\ FragmentTexts = ScenarioDFragments
  /\ \E i \in DOMAIN highlightData :
       /\ highlightData[i].text = TxtExportControlledInformation
       /\ bestCandidate[i] = [start |-> 0, end |-> 1]
       /\ \A l \in 1..2 : textLayer[1][l].highlightId = highlightData[i].id

\* the positions of the target's first and of its last word, and the
\* candidates the pass generates from them
StartPositions(spanData, i) == findWordInSpans(TargetWords(i)[1], spanData)

EndPositions(spanData, i) ==
  findWordInSpans(TargetWords(i)[Len(TargetWords(i))], spanData)

\* C12: if both end words of a target occur in the fragments and every
\* start/end pair with end > start is more than 500 apart, no candidate
\* range is generated and the target has no range.
C12_WindowExceeded ==
  Settled =>
    \A spanData \in {buildSpanData(Fragments)} :
      \A i \in DOMAIN highlightData :
        Len(TargetWords(i)) >= 2 =>
          \A S \in {Range(StartPositions(spanData, i))} :
            \A E \in {Range(EndPositions(spanData, i))} :
              ( /\ S # {}
                /\ E # {}
                /\ \A s \in S, e \in E : e > s => e - s > 500 )
              => /\ generateCandidates(StartPositions(spanData, i),
                                       EndPositions(spanData, i)) = <<>>
                 /\ ~Present(i)
                 /\ ~TaggedFor(highlightData[i].id)

\* scenario E: the only start and the only end of a target are 501 apart,
\* every word of the target is in between, and the target has no range
C12_Witness ==
  /\ Settled
  /\ \E i \in DOMAIN highlightData :
       /\ Len(TargetWords(i)) >= 2
       /\ ~Present(i)
       /\ \E S \in {FragmentsWith(FragmentWords, TargetWords(i)[1])} :
            \E E \in {FragmentsWith(FragmentWords, TargetWords(i)[Len(TargetWords(i))])} :
              /\ Cardinality(S) = 1
              /\ Cardinality(E) = 1
              /\ \E s \in S, e \in E :
                   e - s = 501 /\ CoveredIn(FragmentWords, TargetWords(i), s, e)

\* C13: a target whose first word, or whose last word, is loose-matched by
\* no fragment has no range, and no fragment is tagged for it.
C13_NoStartOrNoEnd ==
  Settled =>
    \A i \in DOMAIN highlightData :
      ( /\ Len(TargetWords(i)) >= 1
        /\ \/ FragmentsWith(FragmentWords, TargetWords(i)[1]) = {}
           \/ FragmentsWith(FragmentWords, TargetWords(i)[Len(TargetWords(i))]) = {} )
      => ~Present(i) /\ ~TaggedFor(highlightData[i].id)

\* two fragments have the first word of a target of two words, none has the
\* last, and the target has no range
C13_Witness ==
  /\ Settled
  /\ \E i \in DOMAIN highlightData :
       /\ Len(TargetWords(i)) >= 2
       /\ Cardinality(FragmentsWith(FragmentWords, TargetWords(i)[1])) >= 2
       /\ FragmentsWith(FragmentWords, TargetWords(i)[Len(TargetWords(i))]) = {}
       /\ ~Present(i)
       /\ ~TaggedFor(highlightData[i].id)

\* the outcome for a request when it is the only one of the list
RangeAlone(highlight) ==
  applyHighlights(FreshLayer, renderedPages, <<highlight>>, Null, Null, Null).best[1]

\* C14: whatever the list (every list over the pool, in every order, is a
\* value of highlightData), each of its targets has the outcome it has as
\* the only target of a list.
C14_OrderIndependent ==
  Settled =>
    \A i \in DOMAIN highlightData :
      bestCandidate[i] = RangeAlone(highlightData[i])

\* two targets are matched, the range of the later one shares a fragment
\* with the range of the earlier one
C14_Witness ==
  /\ Settled
  /\ \E i, j \in DOMAIN highlightData :
       /\ i < j
       /\ Present(i)
       /\ Present(j)
       /\ bestCandidate[i].start <= bestCandidate[j].end
       /\ bestCandidate[j].start <= bestCandidate[i].end
       /\ bestCandidate[j].start > bestCandidate[i].start

\* the spans of the rendered pages as they are, in the order of the global
\* index
RECURSIVE GlobalSpans(_, _)
GlobalSpans(layer, k) ==
  IF k > Len(renderedPages) THEN <<>>
  ELSE layer[renderedPages[k]] \o GlobalSpans(layer, k + 1)

\* the targets of the list whose range in best contains fragment g
Covering(best, g) ==
  { i \in DOMAIN best : best[i] # NoMatch /\ best[i].start <= g /\ g <= best[i].end }

Latest(S) == CHOOSE i \in S : \A j \in S : j <= i

\* C15: after a pass a fragment is tagged iff it lies in the range of some
\* target of the list, and then with the id of the last such target; when
\* the effects have run for a list that is not empty, the spans are tagged
\* as that pass leaves them.
C15_Tagging ==
  \A pass \in {PassOver(textLayer)} :
    /\ \A tagged \in {GlobalSpans(pass.layer, 1)} :
         \A g \in FragmentIndices :
           \A covering \in {Covering(pass.best, g)} :
             tagged[g + 1].highlightId =
               IF covering = {} THEN Undefined
               ELSE highlightData[Latest(covering)].id
    /\ (Settled /\ Len(highlightData) > 0 /\ Len(renderedPages) > 0)
         => /\ HighlightIds(textLayer) = HighlightIds(pass.layer)
            /\ bestCandidate = pass.best

\* after the effects have run, a fragment in the ranges of two targets has
\* the id of the later one, a fragment in the range of the earlier one only
\* has the id of the earlier one, and a third fragment has no tag
C15_Witness ==
  /\ Settled
  /\ \E tagged \in {GlobalSpans(textLayer, 1)} :
       \E i, j \in DOMAIN highlightData :
         /\ i < j
         /\ \E g \in FragmentIndices :
              /\ {i, j} \subseteq Covering(bestCandidate, g)
              /\ tagged[g + 1].highlightId = highlightData[j].id
         /\ \E g \in FragmentIndices :
              /\ Covering(bestCandidate, g) = {i}
              /\ tagged[g + 1].highlightId = highlightData[i].id
         /\ \E g \in FragmentIndices : tagged[g + 1].highlightId = Undefined

\* a span without its colour, transform and shadow
Unstyled(span) ==
  [span EXCEPT !.backgroundColor = "", !.transform = "", !.boxShadow = ""]

UnstyledLayer(layer) ==
  [q \in DOMAIN layer |-> [l \in DOMAIN layer[q] |-> Unstyled(layer[q][l])]]

\* C16: with the fragments and the targets unchanged, no pointer, click or
\* selection event and no run of the effects changes a span in anything but
\* its colour, transform and shadow, nor the ranges of the targets.
C16_PresentationOnly ==
  [][ /\ UnstyledLayer(textLayer') = UnstyledLayer(textLayer)
      /\ bestCandidate' = bestCandidate ]_vars

\* with one target hovered and another selected, the effects have run: a
\* span has the colour of the hover and another that of the selection
C16_Witness ==
  /\ Settled
  /\ hoveredHighlightId # Null
  /\ selectedHighlightId # Null
  /\ hoveredHighlightId # selectedHighlightId
  /\ \E q \in DOMAIN textLayer : \E l \in DOMAIN textLayer[q] :
       /\ textLayer[q][l].highlightId = hoveredHighlightId
       /\ textLayer[q][l].backgroundColor = HIGHLIGHT_COLOR_HOVER
  /\ \E q \in DOMAIN textLayer : \E l \in DOMAIN textLayer[q] :
       /\ textLayer[q][l].highlightId = selectedHighlightId
       /\ textLayer[q][l].backgroundColor = HIGHLIGHT_COLOR_SELECTED

\* the texts of the spans of the rendered pages from page p on, page after
\* page in the order of the page numbers
RECURSIVE PageOrderTexts(_)
PageOrderTexts(p) ==
  IF p > Len(pdf) THEN <<>>
  ELSE (IF p \in Range(renderedPages) THEN pdf[p] ELSE <<>>) \o PageOrderTexts(p + 1)

\* C17: the fragments of a pass are those of the rendered pages in the
\* order of the page numbers, in whatever order the pages finished
\* rendering; so "privacy requires consent", which begins on page 1 of the
\* two-page document and ends on page 2, is matched once both are rendered.
C17_PageOrder ==
  /\ FragmentTexts = PageOrderTexts(1)
  /\ Settled =>
       \A i \in DOMAIN highlightData :
         ( /\ pdf = DocTwoPages
           /\ Range(renderedPages) = {1, 2}
           /\ highlightData[i].text = TxtPrivacyRequiresConsent )
         => Present(i)

\* C18: a matched range has start < end, and a target whose first and last
\* word are found in one and the same fragment only has no range.
C18_NoSingleFragment ==
  Settled =>
    \A i \in DOMAIN highlightData :
      /\ Present(i) => bestCandidate[i].start < bestCandidate[i].end
      /\ Len(TargetWords(i)) >= 1 =>
           \A S \in {FragmentsWith(FragmentWords, TargetWords(i)[1])} :
             \A E \in {FragmentsWith(FragmentWords, TargetWords(i)[Len(TargetWords(i))])} :
               (S = E /\ Cardinality(S) = 1) => ~Present(i)

\* a fragment contains the text of a target of several words, no other
\* fragment has its first or its last word, and the target has no range
C18_Witness ==
  /\ Settled
  /\ \E i \in DOMAIN highlightData :
       /\ Len(TargetWords(i)) >= 2
       /\ ~Present(i)
       /\ ~TaggedFor(highlightData[i].id)
       /\ \E g \in FragmentIndices :
            /\ FragmentsWith(FragmentWords, TargetWords(i)[1]) = {g}
            /\ FragmentsWith(FragmentWords, TargetWords(i)[Len(TargetWords(i))]) = {g}
            /\ IsSubstring(toLowerCase(highlightData[i].text),
                           toLowerCase(FragmentTexts[g + 1]))

\* C19: a start/end pair exactly 500 apart is generated as a candidate, and
\* the target has a range when such a pair covers its words; a pair 501
\* apart is not generated, and a target that has only pairs further apart
\* than 500 has no range.
C19_CapInclusive ==
  Settled =>
    \A spanData \in {buildSpanData(Fragments)} :
      \A i \in DOMAIN highlightData :
        Len(TargetWords(i)) >= 2 =>
          \A S \in {Range(StartPositions(spanData, i))} :
            \A E \in {Range(EndPositions(spanData, i))} :
              \A cands \in {Range(generateCandidates(StartPositions(spanData, i),
                                                      EndPositions(spanData, i)))} :
                /\ \A s \in S : \A e \in E :
                     /\ e - s = 500 => [start |-> s, end |-> e] \in cands
                     /\ e - s = 501 => [start |-> s, end |-> e] \notin cands
                     /\ ( e - s = 500
                          /\ CoveredIn(FragmentWords, TargetWords(i), s, e) )
                        => Present(i)
                /\ ( Present(i)
                     /\ \A s \in S : \A e \in E : e > s => e - s >= 500 )
                   => bestCandidate[i].end - bestCandidate[i].start = 500

\* the only start/end pair of a target is exactly 500 apart and is its
\* range, while the pair of another target of the list, 501 apart, is
\* not among the candidates generated for it
C19_Witness ==
  /\ Settled
  /\ \E spanData \in {buildSpanData(Fragments)} :
       \E i, j \in DOMAIN highlightData :
         /\ Len(TargetWords(i)) >= 2
         /\ Len(TargetWords(j)) >= 2
         /\ Len(StartPositions(spanData, i)) = 1
         /\ Len(EndPositions(spanData, i)) = 1
         /\ EndPositions(spanData, i)[1] - StartPositions(spanData, i)[1] = 500
         /\ bestCandidate[i] = [start |-> StartPositions(spanData, i)[1],
                                end |-> EndPositions(spanData, i)[1]]
         /\ Len(StartPositions(spanData, j)) = 1
         /\ Len(EndPositions(spanData, j)) = 1
         /\ EndPositions(spanData, j)[1] - StartPositions(spanData, j)[1] = 501
         /\ generateCandidates(StartPositions(spanData, j),
                               EndPositions(spanData, j)) = <<>>
         /\ ~Present(j)

\* the candidates of a word sequence that pass the filter with the smallest
\* end - start
SmallestSurvivors(W, words) ==
  LET surv == Survivors(W, words)
  IN { c \in surv : \A d \in surv : d[2] - d[1] >= c[2] - c[1] }

\* C20: the range of a matched target is, among the candidates that pass
\* the filter with the smallest end - start, the one with the smallest
\* start.
C20_TieBreak ==
  Settled =>
    \A i \in DOMAIN highlightData :
      Present(i) =>
        \A smallest \in {SmallestSurvivors(FragmentWords, TargetWords(i))} :
          /\ <<bestCandidate[i].start, bestCandidate[i].end>> \in smallest
          /\ \A c \in smallest : bestCandidate[i].start <= c[1]

\* two candidates of the same smallest length pass the filter, a shorter
\* candidate with a smaller start does not, and the range is the first of
\* the two
C20_Witness ==
  /\ Settled
  /\ \E i \in DOMAIN highlightData :
       /\ Present(i)
       /\ \E smallest \in {SmallestSurvivors(FragmentWords, TargetWords(i))} :
            /\ Cardinality(smallest) >= 2
            /\ \A c \in smallest : bestCandidate[i].start <= c[1]
       /\ \E c \in CandidatePairs(FragmentWords, TargetWords(i)) :
            /\ c[2] - c[1] < bestCandidate[i].end - bestCandidate[i].start
            /\ c[1] < bestCandidate[i].start
            /\ ~CoveredIn(FragmentWords, TargetWords(i), c[1], c[2])

\* C21: a target with fewer than 2 normalized words has no range whatever
\* the fragments are; a target with 2 or more is searched, repeated words
\* and stop-words counting: it has a range exactly when one of its
\* candidate ranges passes the filter.
C21_SearchedFromTwoWords ==
  Settled =>
    \A i \in DOMAIN highlightData :
      /\ Len(TargetWords(i)) < 2 =>
           ~Present(i) /\ ~TaggedFor(highlightData[i].id)
      /\ Len(TargetWords(i)) >= 2 =>
           (Present(i) <=> Survivors(FragmentWords, TargetWords(i)) # {})

\* a target that begins and ends with the same word and has a stop-word in
\* between is matched, a target with one word of three letters or more is
\* not, although several fragments have that word
C21_Witness ==
  /\ Settled
  /\ \E i, j \in DOMAIN highlightData :
       /\ Len(TargetWords(i)) >= 2
       /\ TargetWords(i)[1] = TargetWords(i)[Len(TargetWords(i))]
       /\ Range(TargetWords(i)) \cap commonWords # {}
       /\ Present(i)
       /\ Len(TargetWords(j)) = 1
       /\ Cardinality(FragmentsWith(FragmentWords, TargetWords(j)[1])) >= 2
       /\ ~Present(j)

\* the texts that a pass normalizes: those of the fragments and of the
\* targets
NormalizedTexts ==
  Range(FragmentTexts) \cup { highlightData[i].text : i \in DOMAIN highlightData }

\* C22: every word that extractWords yields is in lower case, has 3
\* characters or more and consists of letters and digits only, and the
\* words are the maximal runs of letters and digits of the text that are
\* long enough.
C22_Normalization ==
  \A t \in NormalizedTexts :
    \A words \in {extractWords(t)} :
      /\ \A k \in DOMAIN words :
           /\ Len(words[k]) >= 3
           /\ \A c \in Range(words[k]) : c \in Range(LowerCaseLetters) \cup Digits
      /\ Range(words) = JoinedWords(t)

\* C23: the filter keeps a generated candidate exactly when every distinct
\* word of the target that is not a stop-word loose-matches a word of a
\* fragment of the candidate's range; the target has a range exactly when
\* a candidate is kept.
C23_FilterExact ==
  Settled =>
    \A spanData \in {buildSpanData(Fragments)} :
      \A i \in DOMAIN highlightData :
        Len(TargetWords(i)) >= 2 =>
          \A cands \in {generateCandidates(StartPositions(spanData, i),
                                           EndPositions(spanData, i))} :
            \A kept \in {Range(filterCandidates(spanData, cands,
                                                uniqueWords(TargetWords(i))))} :
              /\ \A k \in DOMAIN cands :
                   cands[k] \in kept <=>
                     CoveredIn(FragmentWords, TargetWords(i),
                               cands[k].start, cands[k].end)
              /\ Present(i) <=> kept # {}

\* a matched target has a word twice and a stop-word that no fragment of
\* its range has; a candidate of a matched target lacks one of its words
C23_Witness ==
  /\ Settled
  /\ \E i, j \in DOMAIN highlightData :
       /\ Present(i)
       /\ Len(TargetWords(i)) > Cardinality(Range(TargetWords(i)))
       /\ \E w \in Range(TargetWords(i)) \cap commonWords :
            \A g \in bestCandidate[i].start..bestCandidate[i].end :
              ~FragmentContains(FragmentWords, g, w)
       /\ Present(j)
       /\ \E c \in CandidatePairs(FragmentWords, TargetWords(j)) :
            ~CoveredIn(FragmentWords, TargetWords(j), c[1], c[2])

\* a step in which page p, rendered before, gets a new text layer
Rerendered(p) ==
  /\ p \in Range(renderedPages)
  /\ textLayer'[p] # textLayer[p]
  /\ textLayer'[p] = [l \in DOMAIN pdf[p] |-> freshSpan(pdf[p][l])]
  /\ highlightData' = highlightData
  /\ dirty \subseteq dirty'

\* a step in which the effects run with the re-apply effect among them,
\* for a list and a set of rendered pages that are not empty
PassStep ==
  /\ "apply" \in dirty
  /\ dirty' = {}
  /\ highlightData' = highlightData
  /\ renderedPages' = renderedPages
  /\ Len(highlightData) > 0
  /\ Len(renderedPages) > 0

\* C24: when a rendered page renders again, the re-apply effect is due
\* afterwards; and when the effect has run for a list that is not empty,
\* the spans now in the text layers are tagged as a pass over untouched
\* spans tags them.
C24_RerenderInvalidates ==
  [][ /\ (\E p \in DOMAIN pdf : Rerendered(p)) => "apply" \in dirty'
      /\ PassStep =>
           \A scratch \in {applyHighlights(
                               [q \in DOMAIN textLayer |->
                                  [l \in DOMAIN textLayer[q] |->
                                     freshSpan(textLayer[q][l].textContent)]],
                               renderedPages, highlightData, Null, Null, Null)} :
             /\ HighlightIds(textLayer') = HighlightIds(scratch.layer)
             /\ bestCandidate' = scratch.best ]_vars

\* a page has rendered again and the effects have not run yet: a span in
\* the range that the latest pass chose for a target is new and untagged
C24_Witness ==
  /\ "apply" \in dirty
  /\ Len(bestCandidate) = Len(highlightData)
  /\ \E spans \in {GlobalSpans(textLayer, 1)} :
       \E i \in DOMAIN highlightData :
         /\ Present(i)
         /\ bestCandidate[i].end < Len(spans)
         /\ \E g \in bestCandidate[i].start..bestCandidate[i].end :
              spans[g + 1] = freshSpan(spans[g + 1].textContent)
         /\ \E g \in bestCandidate[i].start..bestCandidate[i].end :
              spans[g + 1].highlightId = highlightData[i].id

\* the requests of the list that have the id, the summary and the title
\* found on a span (a span has no title when the request has none)
OwnersOf(span) ==
  { i \in DOMAIN highlightData :
      /\ span.highlightId = highlightData[i].id
      /\ span.highlightSummary = highlightData[i].summary
      /\ span.highlightTitle = IF highlightData[i].title # NoTitle
                                 THEN highlightData[i].title ELSE Undefined }

\* C25: after a pass, the id, the summary and the title on a tagged span
\* are those of one and the same target.
C25_MetadataOfOneTarget ==
  \A pass \in {PassOver(textLayer)} :
    \A q \in DOMAIN pass.layer : \A l \in DOMAIN pass.layer[q] :
      pass.layer[q][l].highlightId # Undefined
        => OwnersOf(pass.layer[q][l]) # {}

\* the list with the page fields replaced by those of pages
WithPages(list, pages) ==
  [i \in DOMAIN list |-> [list[i] EXCEPT !.page = pages[i]]]

\* the page of fragment g
PageOfFragment(g) ==
  renderedPages[CHOOSE k \in DOMAIN renderedPages :
    /\ spansBefore(textLayer, renderedPages, k) <= g
    /\ g < spansBefore(textLayer, renderedPages, k) + Len(textLayer[renderedPages[k]])]

\* C26: once the effects have run for a list that is not empty, a pass for
\* the same list with any other page fields (pages of the document or a
\* page beyond its last) gives the ranges and tags that are there.
C26_PageFieldIgnored ==
  (Settled /\ Len(highlightData) > 0 /\ Len(renderedPages) > 0) =>
    \A pages \in [DOMAIN highlightData -> 1..(Len(pdf) + 1)] :
      \A pass \in {applyHighlights(textLayer, renderedPages,
                                    WithPages(highlightData, pages),
                                    selectedHighlightId, hoveredHighlightId,
                                    externalSelectedId)} :
        /\ pass.best = bestCandidate
        /\ HighlightIds(pass.layer) = HighlightIds(textLayer)

\* the range of a target has a fragment of a page that is not the page
\* declared for the target
C26_Witness ==
  /\ Settled
  /\ \E i \in DOMAIN highlightData :
       /\ Present(i)
       /\ \E g \in bestCandidate[i].start..bestCandidate[i].end :
            PageOfFragment(g) # highlightData[i].page
       /\ TaggedFor(highlightData[i].id)

\* the ids on the spans that have the colour of the selection
PaintedSelected ==
  UNION { { textLayer[q][l].highlightId :
              l \in { k \in DOMAIN textLayer[q] :
                        textLayer[q][k].backgroundColor = HIGHLIGHT_COLOR_SELECTED } } :
          q \in DOMAIN textLayer }

PageScrollStarts ==
  /\ lastRequestedPageRef' # lastRequestedPageRef
  /\ ~isUserScrollingRef'
  /\ reenableTimer \in timers'

\* C28: while the current page changes through scroll detection only
\* (handleScroll calling onPageChange), the viewer never starts a
\* programmatic scroll to a page.
C28_NoFeedbackLoop == [][~PageScrollStarts]_vars

\* handleScroll reports a page through onPageChange
PageReported ==
  /\ isUserScrollingRef
  /\ lastRequestedPageRef' # lastRequestedPageRef
  /\ currentPage' = lastRequestedPageRef'
  /\ timers' = timers

\* C29: scroll detection that a programmatic scroll switched off is
\* switched on again: once no timer and no effect is pending, scroll
\* detection is enabled.
C29_DetectionReenabled ==
  (timers = {} /\ dirty = {}) => isUserScrollingRef

\* the second half of C29: while the timer of scrollTimeoutRef is pending,
\* no scroll event reports a page
NoReportWhilePending ==
  [][(reenableTimer \in timers) => ~PageReported]_vars

\* C30: the current page is a page of the loaded document.
C30_PageInRange == 1 <= currentPage /\ currentPage <= numPages

====
